---- MODULE Spec2Model ----
(***************************************************************************)
(* Model of skills/excalidraw/scripts/validate_excalidraw.py: the          *)
(* Excalidraw element-graph validator validate_excalidraw and its helper   *)
(* find_shape_near.                                                        *)
(*                                                                         *)
(* Encoding of Python/JSON values.  A dict is a TLA+ function whose domain *)
(* is the set of keys that are present (so `k in d` is k \in DOMAIN d).    *)
(* Every value stored under a key is tagged with its JSON type:            *)
(*   None/null  [j |-> "null"]                                             *)
(*   string     [j |-> "str",  v |-> "abc"]                                *)
(*   number     [j |-> "num",  v |-> 3]                                    *)
(*   boolean    [j |-> "bool", v |-> TRUE]                                 *)
(*   list       [j |-> "list", v |-> <<...>>]                              *)
(*   object     [j |-> "obj",  v |-> "..."]   (an opaque nested mapping)   *)
(* The entries of `elements` and of `boundElements` are dicts; the entries *)
(* of `points` are pairs of integers.                                      *)
(***************************************************************************)
EXTENDS Integers, Sequences, FiniteSets, TLC

None == [j |-> "null"]
Str(s) == [j |-> "str", v |-> s]
Num(n) == [j |-> "num", v |-> n]
Bool(b) == [j |-> "bool", v |-> b]
List(s) == [j |-> "list", v |-> s]
Obj(s) == [j |-> "obj", v |-> s]

\* Python truth value of a tagged value (`if el_id:`, `x or []`).
Truthy(val) ==
    CASE val.j = "null" -> FALSE
      [] val.j = "str"  -> val.v # ""
      [] val.j = "num"  -> val.v # 0
      [] val.j = "bool" -> val.v
      [] val.j = "list" -> val.v # <<>>
      [] OTHER          -> TRUE

\* dict.get(key, default)
Get(d, key, default) == IF key \in DOMAIN d THEN d[key] ELSE default

\* isinstance(value, list)
IsList(val) == val.j = "list"

Abs(n) == IF n < 0 THEN -n ELSE n

\* ValidationError(level, message, element_id); a message is the tuple of
\* its fixed text and the values formatted into it.
ValidationError(level, message, element_id) ==
    [level |-> level, message |-> message, element_id |-> element_id]

-----------------------------------------------------------------------------
(* 1. Top-level structure                                                  *)

required_fields == <<"type", "version", "elements">>

\* (variant: stops at the first missing field)
MissingFieldErrorsFirst(d) ==
    LET missing == SelectSeq(required_fields, LAMBDA field : field \notin DOMAIN d)
    IN  [k \in 1..(IF missing = <<>> THEN 0 ELSE 1) |->
            ValidationError("error", <<"Missing required field: ", missing[k]>>, None)]

MissingFieldErrors(d) ==
    LET missing == SelectSeq(required_fields, LAMBDA field : field \notin DOMAIN d)
    IN  [k \in 1..Len(missing) |->
            ValidationError("error", <<"Missing required field: ", missing[k]>>, None)]

InvalidTypeErrors(d) ==
    IF Get(d, "type", None) # Str("excalidraw")
    THEN <<ValidationError("error", <<"Invalid type: expected 'excalidraw', got ", Get(d, "type", None)>>, None)>>
    ELSE <<>>

ElementsOf(d) == Get(d, "elements", List(<<>>))

NotAListError == ValidationError("error", <<"elements must be a list">>, None)

-----------------------------------------------------------------------------
(* Lookup maps and 2. duplicate IDs                                        *)

\* The loop `for el in elements` that fills ids and elements_by_id, from
\* entry k on; acc holds both collections.
RECURSIVE IndexLoop(_, _, _)
RECURSIVE IndexLoopFirstWins(_, _, _)
\* (variant: an id already in elements_by_id keeps its element)
IndexLoopFirstWins(els, k, acc) ==
    IF k > Len(els) THEN acc
    ELSE LET el == els[k]
             el_id == Get(el, "id", None)
         IN  IF Truthy(el_id)
             THEN IndexLoopFirstWins(els, k + 1,
                     [ids |-> Append(acc.ids, el_id),
                      elements_by_id |-> acc.elements_by_id @@ (el_id :> el)])
             ELSE IndexLoopFirstWins(els, k + 1, acc)

IndexLoop(els, k, acc) ==
    IF k > Len(els) THEN acc
    ELSE LET el == els[k]
             el_id == Get(el, "id", None)
         IN  IF Truthy(el_id)
             THEN IndexLoop(els, k + 1,
                     [ids |-> Append(acc.ids, el_id),
                      elements_by_id |-> (el_id :> el) @@ acc.elements_by_id])
             ELSE IndexLoop(els, k + 1, acc)

EmptyDict == [k \in {} |-> None]

BuildLookup(els) == IndexLoop(els, 1, [ids |-> <<>>, elements_by_id |-> EmptyDict])

\* The loop `for el_id in ids` with the set `seen`.
RECURSIVE DuplicateLoop(_, _, _)
DuplicateLoop(idseq, k, seen) ==
    IF k > Len(idseq) THEN <<>>
    ELSE (IF idseq[k] \in seen
          THEN <<ValidationError("error", <<"Duplicate ID: ", idseq[k]>>, None)>>
          ELSE <<>>)
         \o DuplicateLoop(idseq, k + 1, seen \cup {idseq[k]})

DuplicateErrors(idseq) == DuplicateLoop(idseq, 1, {})

-----------------------------------------------------------------------------
(* find_shape_near                                                         *)

Tolerance == 20

ShapeTypes == {Str("rectangle"), Str("ellipse")}

\* (variant: a midpoint at exactly the tolerance counts as near)
EdgeNearInclusive(el, x, y, tolerance) ==
    LET el_x == Get(el, "x", Num(0)).v
        el_y == Get(el, "y", Num(0)).v
        width == Get(el, "width", Num(0)).v
        height == Get(el, "height", Num(0)).v
        edges2 == << <<2 * el_x + width, 2 * el_y>>,
                     <<2 * el_x + width, 2 * el_y + 2 * height>>,
                     <<2 * el_x, 2 * el_y + height>>,
                     <<2 * el_x + 2 * width, 2 * el_y + height>> >>
    IN  \E e \in 1..4 :
            /\ Abs(edges2[e][1] - 2 * x) <= 2 * tolerance
            /\ Abs(edges2[e][2] - 2 * y) <= 2 * tolerance

\* One of the four edge midpoints of el lies within tolerance of (x, y) on
\* both axes.  The midpoints use width / 2 and height / 2; the comparison is
\* made on doubled coordinates so that it stays exact on integers.
EdgeNear(el, x, y, tolerance) ==
    LET el_x == Get(el, "x", Num(0)).v
        el_y == Get(el, "y", Num(0)).v
        width == Get(el, "width", Num(0)).v
        height == Get(el, "height", Num(0)).v
        edges2 == << <<2 * el_x + width, 2 * el_y>>,
                     <<2 * el_x + width, 2 * el_y + 2 * height>>,
                     <<2 * el_x, 2 * el_y + height>>,
                     <<2 * el_x + 2 * width, 2 * el_y + height>> >>
    IN  \E e \in 1..4 :
            /\ Abs(edges2[e][1] - 2 * x) < 2 * tolerance
            /\ Abs(edges2[e][2] - 2 * y) < 2 * tolerance

RECURSIVE FindLoop(_, _, _, _, _)
FindLoop(els, k, x, y, tolerance) ==
    IF k > Len(els) THEN None
    ELSE IF Get(els[k], "type", None) \notin ShapeTypes
         THEN FindLoop(els, k + 1, x, y, tolerance)
         ELSE IF EdgeNear(els[k], x, y, tolerance)
              THEN els[k]
              ELSE FindLoop(els, k + 1, x, y, tolerance)

find_shape_near(els, x, y) == FindLoop(els, 1, x, y, Tolerance)

-----------------------------------------------------------------------------
(* 3. Validate each element                                                *)

required_props == <<"id", "type", "x", "y">>

\* (variant: elements of other types are not checked at all)
MissingPropErrorsKnownTypes(el, el_id) ==
    LET missing == SelectSeq(required_props, LAMBDA prop : prop \notin DOMAIN el)
    IN  IF Get(el, "type", None) \in {Str("rectangle"), Str("ellipse"), Str("diamond"),
                                     Str("text"), Str("arrow")}
        THEN [k \in 1..Len(missing) |->
                ValidationError("error", <<"Missing required property: ", missing[k]>>, el_id)]
        ELSE <<>>

MissingPropErrors(el, el_id) ==
    LET missing == SelectSeq(required_props, LAMBDA prop : prop \notin DOMAIN el)
    IN  [k \in 1..Len(missing) |->
            ValidationError("error", <<"Missing required property: ", missing[k]>>, el_id)]

\* (variant: only a diamond that has a size is rejected)
DiamondErrorsSized(el, el_id) ==
    IF Get(el, "type", None) = Str("diamond") /\ "width" \in DOMAIN el
    THEN <<ValidationError("error", <<"Diamond shapes have broken arrow connections. Use styled rectangles instead.">>, el_id)>>
    ELSE <<>>

DiamondErrors(el, el_id) ==
    IF Get(el, "type", None) = Str("diamond")
    THEN <<ValidationError("error", <<"Diamond shapes have broken arrow connections. Use styled rectangles instead.">>, el_id)>>
    ELSE <<>>

\* `el.get("boundElements") or []`
BoundElementsOf(el) ==
    LET b == Get(el, "boundElements", None)
    IN  IF Truthy(b) THEN b.v ELSE <<>>

RECURSIVE BindingLoop(_, _, _, _)
BindingLoop(bound_elements, k, el_id, by_id) ==
    IF k > Len(bound_elements) THEN <<>>
    ELSE LET binding == bound_elements[k]
             text_id == Get(binding, "id", None)
             here ==
                IF Get(binding, "type", None) = Str("text")
                THEN IF text_id \notin DOMAIN by_id
                     THEN <<ValidationError("error", <<"boundElements references missing text element: ", text_id>>, el_id)>>
                     ELSE IF Get(by_id[text_id], "containerId", None) # el_id
                          THEN <<ValidationError("error", <<"Text element containerId doesn't match shape id: ", text_id>>, el_id)>>
                          ELSE <<>>
                ELSE <<>>
         IN  here \o BindingLoop(bound_elements, k + 1, el_id, by_id)

ShapeErrors(el, el_id, by_id) ==
    IF Get(el, "type", None) \in ShapeTypes
    THEN (IF "width" \notin DOMAIN el \/ "height" \notin DOMAIN el
          THEN <<ValidationError("error", <<"Shape missing width/height">>, el_id)>>
          ELSE <<>>)
         \o BindingLoop(BoundElementsOf(el), 1, el_id, by_id)
    ELSE <<>>

\* [b.get("id") for b in bound_elements if b.get("type") == "text"]
TextRefs(bound_elements) ==
    {Get(bound_elements[k], "id", None) :
        k \in {n \in 1..Len(bound_elements) :
                  Get(bound_elements[n], "type", None) = Str("text")}}

\* (variant: a container that does not list the text back is an error)
TextErrorsSymmetric(el, el_id, by_id) ==
    IF Get(el, "type", None) = Str("text")
    THEN LET container_id == Get(el, "containerId", None)
         IN  (IF Truthy(container_id)
              THEN IF container_id \notin DOMAIN by_id
                   THEN <<ValidationError("error", <<"containerId references missing shape: ", container_id>>, el_id)>>
                   ELSE IF el_id \notin TextRefs(BoundElementsOf(by_id[container_id]))
                        THEN <<ValidationError("error", <<"Container missing boundElements reference to this text: ", container_id>>, el_id)>>
                        ELSE <<>>
              ELSE <<>>)
             \o (IF "text" \notin DOMAIN el
                 THEN <<ValidationError("error", <<"Text element missing 'text' property">>, el_id)>>
                 ELSE <<>>)
    ELSE <<>>

\* (variant: a container that is no rectangle or ellipse counts as missing)
TextErrorsShapeOnly(el, el_id, by_id) ==
    IF Get(el, "type", None) = Str("text")
    THEN LET container_id == Get(el, "containerId", None)
         IN  (IF Truthy(container_id)
              THEN IF \/ container_id \notin DOMAIN by_id
                      \/ Get(by_id[container_id], "type", None) \notin ShapeTypes
                   THEN <<ValidationError("error", <<"containerId references missing shape: ", container_id>>, el_id)>>
                   ELSE IF el_id \notin TextRefs(BoundElementsOf(by_id[container_id]))
                        THEN <<ValidationError("warning", <<"Container missing boundElements reference to this text: ", container_id>>, el_id)>>
                        ELSE <<>>
              ELSE <<>>)
             \o (IF "text" \notin DOMAIN el
                 THEN <<ValidationError("error", <<"Text element missing 'text' property">>, el_id)>>
                 ELSE <<>>)
    ELSE <<>>

TextErrors(el, el_id, by_id) ==
    IF Get(el, "type", None) = Str("text")
    THEN LET container_id == Get(el, "containerId", None)
         IN  (IF Truthy(container_id)
              THEN IF container_id \notin DOMAIN by_id
                   THEN <<ValidationError("error", <<"containerId references missing shape: ", container_id>>, el_id)>>
                   ELSE IF el_id \notin TextRefs(BoundElementsOf(by_id[container_id]))
                        THEN <<ValidationError("warning", <<"Container missing boundElements reference to this text: ", container_id>>, el_id)>>
                        ELSE <<>>
              ELSE <<>>)
             \o (IF "text" \notin DOMAIN el
                 THEN <<ValidationError("error", <<"Text element missing 'text' property">>, el_id)>>
                 ELSE <<>>)
    ELSE <<>>

RECURSIVE MaxAbs(_, _, _)
\* max(abs(p[c]) for p in points), from entry k on
MaxAbs(points, c, k) ==
    IF k = Len(points) THEN Abs(points[k][c])
    ELSE LET rest == MaxAbs(points, c, k + 1)
         IN  IF Abs(points[k][c]) >= rest THEN Abs(points[k][c]) ELSE rest

\* (variant: el["points"] without a default)
PointsOfNoDefault(el) == Get(el, "points", None)

PointsOf(el) == Get(el, "points", List(<<>>))

\* (variant: two points are too few as well)
ArrowPointErrorsOffByOne(points, el_id) ==
    IF Len(points) <= 2
    THEN <<ValidationError("error", <<"Arrow must have at least 2 points">>, el_id)>>
    ELSE <<>>

ArrowPointErrors(points, el_id) ==
    IF Len(points) < 2
    THEN <<ValidationError("error", <<"Arrow must have at least 2 points">>, el_id)>>
    ELSE <<>>

\* (variant: an absent roughness counts as 0)
ArrowElbowErrorsDefaults(el, points, el_id) ==
    IF Len(points) > 2
    THEN (IF Get(el, "elbowed", None) # Bool(TRUE)
          THEN <<ValidationError("warning", <<"Multi-point arrow missing 'elbowed: true' - will render curved">>, el_id)>>
          ELSE <<>>)
         \o (IF Get(el, "roundness", None) # None
             THEN <<ValidationError("warning", <<"Elbow arrow should have 'roundness: null' for sharp corners">>, el_id)>>
             ELSE <<>>)
         \o (IF Get(el, "roughness", Num(0)) # Num(0)
             THEN <<ValidationError("warning", <<"Elbow arrow should have 'roughness: 0' for clean lines">>, el_id)>>
             ELSE <<>>)
    ELSE <<>>

ArrowElbowErrors(el, points, el_id) ==
    IF Len(points) > 2
    THEN (IF Get(el, "elbowed", None) # Bool(TRUE)
          THEN <<ValidationError("warning", <<"Multi-point arrow missing 'elbowed: true' - will render curved">>, el_id)>>
          ELSE <<>>)
         \o (IF Get(el, "roundness", None) # None
             THEN <<ValidationError("warning", <<"Elbow arrow should have 'roundness: null' for sharp corners">>, el_id)>>
             ELSE <<>>)
         \o (IF Get(el, "roughness", Num(1)) # Num(0)
             THEN <<ValidationError("warning", <<"Elbow arrow should have 'roughness: 0' for clean lines">>, el_id)>>
             ELSE <<>>)
    ELSE <<>>

\* (variant: no tolerance)
ArrowBoxErrorsExact(el, points, el_id) ==
    IF points # <<>>
    THEN LET max_x == MaxAbs(points, 1, 1)
             max_y == MaxAbs(points, 2, 1)
             width == Get(el, "width", Num(0)).v
             height == Get(el, "height", Num(0)).v
         IN  (IF width < max_x
              THEN <<ValidationError("warning", <<"Arrow width smaller than points bounding box", width, max_x>>, el_id)>>
              ELSE <<>>)
             \o (IF height < max_y
                 THEN <<ValidationError("warning", <<"Arrow height smaller than points bounding box", height, max_y>>, el_id)>>
                 ELSE <<>>)
    ELSE <<>>

ArrowBoxErrors(el, points, el_id) ==
    IF points # <<>>
    THEN LET max_x == MaxAbs(points, 1, 1)
             max_y == MaxAbs(points, 2, 1)
             width == Get(el, "width", Num(0)).v
             height == Get(el, "height", Num(0)).v
         IN  (IF width < max_x - 1
              THEN <<ValidationError("warning", <<"Arrow width smaller than points bounding box", width, max_x>>, el_id)>>
              ELSE <<>>)
             \o (IF height < max_y - 1
                 THEN <<ValidationError("warning", <<"Arrow height smaller than points bounding box", height, max_y>>, el_id)>>
                 ELSE <<>>)
    ELSE <<>>

ArrowEndpointErrors(el, points, el_id, els, verb) ==
    IF verb
    THEN LET arrow_x == Get(el, "x", Num(0)).v
             arrow_y == Get(el, "y", Num(0)).v
         IN  (IF find_shape_near(els, arrow_x, arrow_y) = None
              THEN <<ValidationError("warning", <<"Arrow start not near any shape edge", arrow_x, arrow_y>>, el_id)>>
              ELSE <<>>)
             \o (IF points # <<>>
                 THEN LET end_x == arrow_x + points[Len(points)][1]
                          end_y == arrow_y + points[Len(points)][2]
                      IN  IF find_shape_near(els, end_x, end_y) = None
                          THEN <<ValidationError("warning", <<"Arrow end not near any shape edge", end_x, end_y>>, el_id)>>
                          ELSE <<>>
                 ELSE <<>>)
    ELSE <<>>

\* (variant: the bounding box is checked under `if verbose:` as well)
ArrowErrorsBoxWhenVerbose(el, el_id, els, verb) ==
    IF Get(el, "type", None) = Str("arrow")
    THEN LET points == PointsOf(el).v
         IN  ArrowPointErrors(points, el_id)
             \o ArrowElbowErrors(el, points, el_id)
             \o (IF verb THEN ArrowBoxErrors(el, points, el_id) ELSE <<>>)
             \o ArrowEndpointErrors(el, points, el_id, els, verb)
    ELSE <<>>

ArrowErrors(el, el_id, els, verb) ==
    IF Get(el, "type", None) = Str("arrow")
    THEN LET points == PointsOf(el).v
         IN  ArrowPointErrors(points, el_id)
             \o ArrowElbowErrors(el, points, el_id)
             \o ArrowBoxErrors(el, points, el_id)
             \o ArrowEndpointErrors(el, points, el_id, els, verb)
    ELSE <<>>

\* len(points) raises TypeError when `points` holds null.
ElementRaises(el) ==
    /\ Get(el, "type", None) = Str("arrow")
    /\ ~IsList(PointsOf(el))

\* (variant: the required properties are checked after the type's checks)
ElementErrorsPropsLast(el, els, by_id, verb) ==
    LET el_id == Get(el, "id", Str("unknown"))
    IN  DiamondErrors(el, el_id)
        \o ShapeErrors(el, el_id, by_id)
        \o TextErrors(el, el_id, by_id)
        \o ArrowErrors(el, el_id, els, verb)
        \o MissingPropErrors(el, el_id)

\* The diagnostics the body of `for el in elements` appends for el.
ElementErrors(el, els, by_id, verb) ==
    LET el_id == Get(el, "id", Str("unknown"))
    IN  MissingPropErrors(el, el_id)
        \o DiamondErrors(el, el_id)
        \o ShapeErrors(el, el_id, by_id)
        \o TextErrors(el, el_id, by_id)
        \o ArrowErrors(el, el_id, els, verb)

RECURSIVE ElementLoop(_, _, _, _)
\* The loop `for el in elements` from entry k on
ElementLoop(els, k, by_id, verb) ==
    IF k > Len(els) THEN <<>>
    ELSE ElementErrors(els[k], els, by_id, verb) \o ElementLoop(els, k + 1, by_id, verb)

\* The list validate_excalidraw(data, verbose) returns, for a document on
\* which it returns
Validate(d, verb) ==
    LET top == MissingFieldErrors(d) \o InvalidTypeErrors(d)
    IN  IF ~IsList(ElementsOf(d))
        THEN Append(top, NotAListError)
        ELSE LET els == ElementsOf(d).v
                 lookup == BuildLookup(els)
             IN  top \o DuplicateErrors(lookup.ids)
                     \o ElementLoop(els, 1, lookup.elements_by_id, verb)

-----------------------------------------------------------------------------
(* Documents                                                               *)

MaxElems == 3
MaxBindings == 1
MaxPoints == 3

\* All sequences over S of length 0..n
SeqUpTo(S, n) == UNION {[1..m -> S] : m \in 0..n}

Field(key, val) == key :> val
\* A field that is absent or holds one of the values of V
Opt(key, V) == {EmptyDict} \cup {Field(key, val) : val \in V}

Position == Field("x", Num(0)) @@ Field("y", Num(0))
Size == Field("width", Num(100)) @@ Field("height", Num(50))

Binding(type, id) == Field("type", Str(type)) @@ Field("id", Str(id))

Bindings ==
    {Binding("text", "b"), Binding("arrow", "b"), Binding("text", ""),
     Field("type", Str("text"))}

BoundLists == {List(s) : s \in SeqUpTo(Bindings, MaxBindings)}

\* Shapes, texts and diamonds that refer to each other by id
RefShapes ==
    {Field("type", Str("rectangle")) @@ id @@ Position @@ Size @@ bound :
        id \in Opt("id", {Str(""), Str("a")}),
        bound \in Opt("boundElements", BoundLists)}
    \cup {Field("type", Str("ellipse")) @@ Field("id", Str("a")) @@ Position @@ Size
            @@ Field("boundElements", List(<<Binding("text", "b")>>)),
          Field("type", Str("rectangle")) @@ Field("id", Str("a")) @@ Position
            @@ Field("width", Num(100))}

RefTexts ==
    {Field("type", Str("text")) @@ id @@ Position @@ Field("text", Str("label")) @@ container :
        id \in {Field("id", Str("b")), Field("id", Str(""))},
        container \in Opt("containerId", {None, Str(""), Str("a"), Str("b")})}
    \cup {Field("type", Str("text")) @@ Position @@ Field("text", Str("label"))
            @@ Field("containerId", Str("a")),
          Field("type", Str("text")) @@ Field("id", Str("b")) @@ Position
            @@ Field("containerId", Str("a")),
          Field("type", Str("text")) @@ Field("id", Str("b")) @@ Position
            @@ Field("text", Str("label")) @@ Field("containerId", Str("b"))
            @@ Field("boundElements", List(<<Binding("text", "b")>>))}

RefOthers ==
    {Field("type", Str("diamond")) @@ Field("id", Str("a")) @@ Position,
     Field("type", Str("diamond")) @@ Field("id", Str("a")) @@ Position @@ Size
        @@ Field("boundElements", List(<<Binding("text", "b")>>)),
     Field("type", Str("diamond")) @@ Field("y", Num(0)),
     Field("type", Str("arrow")) @@ Field("id", Str("a")) @@ Position @@ Size
        @@ Field("points", List(<< <<0, 0>>, <<100, 50>> >>))
        @@ Field("boundElements", List(<<Binding("text", "b")>>)),
     Field("type", Str("line")) @@ Field("id", Str("a")) @@ Position}

RefElements == RefShapes \cup RefTexts \cup RefOthers

Document(type, version, els) ==
    Field("type", type) @@ Field("version", version) @@ Field("elements", els)

WellFormed(els) == Document(Str("excalidraw"), Num(2), List(els))

\* Documents every specification starts from: the early abort, an arrow
\* whose points hold null, and a plain diagram.
CommonDocs ==
    {Document(Str("excalidraw"), Num(2), None),
     WellFormed(<<Field("type", Str("arrow")) @@ Field("id", Str("a")) @@ Position
                    @@ Field("points", None)>>),
     WellFormed(<<Field("type", Str("rectangle")) @@ Field("id", Str("a")) @@ Position @@ Size>>)}

\* Every pair of the elements above, in both orders
RefDocs == {WellFormed(els) : els \in SeqUpTo(RefElements, 2)}

\* Longer documents, in which an id may come several times: containers with
\* id "a" and texts with id "b"
CoreElements ==
    {kind @@ Position @@ Size @@ bound :
        kind \in {Field("type", Str("rectangle")) @@ Field("id", Str("a")),
                  Field("type", Str("arrow")) @@ Field("id", Str("a"))
                     @@ Field("points", List(<< <<0, 0>>, <<100, 50>> >>))},
        bound \in Opt("boundElements", {List(<<Binding("text", "b")>>)})}
    \cup {Field("type", Str("text")) @@ Field("id", Str("b")) @@ Position
             @@ Field("text", Str("label")) @@ container :
             container \in Opt("containerId", {Str("a")})}
    \cup {Field("type", Str("diamond")) @@ Field("id", Str("b")) @@ Position}

CoreDocs == {WellFormed(els) : els \in SeqUpTo(CoreElements, MaxElems)}

\* Documents with any of the top-level fields absent or ill-typed
TopElements ==
    {Field("type", Str("rectangle")) @@ Field("id", Str("a")) @@ Position @@ Size,
     Field("type", Str("diamond")) @@ Field("id", Str("a")) @@ Position,
     Field("type", Str("text")) @@ Field("id", Str("b")) @@ Field("containerId", Str("c")),
     Field("type", Str("arrow")) @@ Field("id", Str("b")) @@ Position
        @@ Field("points", List(<< <<0, 0>> >>))}

TopDocs ==
    {type @@ version @@ els :
        type \in Opt("type", {Str("excalidraw"), Str("other")}),
        version \in Opt("version", {Num(2)}),
        els \in Opt("elements", {None, Str("abc"), Num(7), Obj("{}")}
                                  \cup {List(s) : s \in SeqUpTo(TopElements, MaxElems)})}

\* Arrows with 0..MaxPoints points and every combination of the elbow
\* properties, alone or next to a rectangle
PointList(n) == [k \in 1..n |-> <<10 * (k - 1), 10 * ((k - 1) % 2)>>]

StyleArrows ==
    {Field("type", Str("arrow")) @@ id @@ Position @@ Size @@ points @@ elbowed @@ roundness @@ roughness :
        id \in Opt("id", {Str("a")}),
        points \in Opt("points", {List(PointList(n)) : n \in 0..MaxPoints}),
        elbowed \in Opt("elbowed", {Bool(TRUE), Bool(FALSE)}),
        roundness \in Opt("roundness", {None, Obj("{type: 2}")}),
        roughness \in Opt("roughness", {Num(0), Num(1)})}

PlainRectangle ==
    Field("type", Str("rectangle")) @@ Field("id", Str("r")) @@ Position @@ Size

ArrowDocs ==
    {WellFormed(<<a>>) : a \in StyleArrows}
    \cup {WellFormed(<<PlainRectangle, a>>) : a \in StyleArrows}

\* Arrows whose bounding box is larger than, equal to, just below and well
\* below the largest offsets of their points
BoxPoints == {<<-5, 0>>, <<3, -2>>, <<0, 4>>}

BoxArrows ==
    {Field("type", Str("arrow")) @@ Field("id", Str("a")) @@ Position
        @@ Field("points", List(points)) @@ width @@ height :
        points \in SeqUpTo(BoxPoints, MaxPoints),
        width \in Opt("width", {Num(2), Num(3), Num(4), Num(5)}),
        height \in Opt("height", {Num(1), Num(3)})}

BoxDocs == {WellFormed(<<a>>) : a \in BoxArrows}

\* Arrows whose start and end lie at, just inside and beyond the tolerance
\* from the edge midpoints of one other element, which is a rectangle or an
\* ellipse (of even or odd width, or without position and size) or an element
\* of another type with the same geometry
NearLastPoints == {<<0, 0>>, <<19, 0>>, <<20, 0>>, <<70, 25>>}

NearPointLists ==
    {<<>>} \cup {<<p>> : p \in NearLastPoints} \cup {<< <<0, 0>>, p >> : p \in NearLastPoints}

NearArrows ==
    {Field("type", Str("arrow")) @@ Field("id", Str("a")) @@ x @@ Field("y", Num(y))
        @@ points :
        x \in Opt("x", {Num(19), Num(30), Num(31), Num(200)}),
        y \in {0, 20},
        points \in Opt("points", {List(pts) : pts \in NearPointLists})}

NearTargets ==
    {Field("type", Str(type)) @@ Field("id", Str("t")) @@ Position
        @@ Field("width", Num(width)) @@ Field("height", Num(50)) :
        type \in {"rectangle", "ellipse", "diamond", "text", "line"},
        width \in {100, 101}}
    \cup {Field("type", Str("ellipse")) @@ Field("id", Str("t"))}

NearDocs ==
    {WellFormed(<<a>>) : a \in NearArrows}
    \cup {WellFormed(<<t, a>>) : t \in NearTargets, a \in NearArrows}
    \cup {WellFormed(<<a, t>>) : t \in NearTargets, a \in NearArrows}

\* Elements and documents with any subset of their fields absent
SparseElements ==
    {type @@ id @@ x @@ y @@ width @@ height @@ bound @@ container @@ text @@ points :
        type \in Opt("type", {Str("rectangle"), Str("ellipse"), Str("diamond"),
                              Str("text"), Str("arrow"), Str("line")}),
        id \in Opt("id", {Str("a")}),
        x \in Opt("x", {Num(0)}),
        y \in Opt("y", {Num(0)}),
        width \in Opt("width", {Num(100)}),
        height \in Opt("height", {Num(50)}),
        bound \in Opt("boundElements", {List(<<Binding("text", "a")>>)}),
        container \in Opt("containerId", {Str("a")}),
        text \in Opt("text", {Str("label")}),
        points \in Opt("points", {List(PointList(3))})}

SparseShapes ==
    {Field("type", Str("rectangle")) @@ id @@ x @@ y @@ width @@ height @@ bound :
        id \in Opt("id", {Str("a")}),
        x \in Opt("x", {Num(0)}),
        y \in Opt("y", {Num(0)}),
        width \in Opt("width", {Num(100)}),
        height \in Opt("height", {Num(50)}),
        bound \in Opt("boundElements", {List(<<Binding("text", "b")>>)})}

SparsePartners ==
    {Field("type", Str("arrow")) @@ Field("id", Str("b")) @@ x @@ y @@ points :
        x \in Opt("x", {Num(50)}),
        y \in Opt("y", {Num(0)}),
        points \in Opt("points", {List(PointList(2))})}
    \cup {Field("type", Str("text")) @@ id @@ container @@ text :
            id \in Opt("id", {Str("b")}),
            container \in Opt("containerId", {Str("a")}),
            text \in Opt("text", {Str("label")})}

SparseDocs ==
    {type @@ version @@ Field("elements", List(<<el>>)) :
        type \in Opt("type", {Str("excalidraw")}),
        version \in Opt("version", {Num(2)}),
        el \in SparseElements}
    \cup {type @@ version :
            type \in Opt("type", {Str("excalidraw")}),
            version \in Opt("version", {Num(2)})}
    \cup {WellFormed(<<s, p>>) : s \in SparseShapes, p \in SparsePartners}
    \cup {WellFormed(<<p, s>>) : s \in SparseShapes, p \in SparsePartners}

-----------------------------------------------------------------------------
(* validate_excalidraw as a state machine, and main around it              *)
(* file is what the path given on the command line leads to, data what      *)
(* json.load yields from it, as_json and verbose the two flags, and          *)
(* exit_status the status the process ended with (None while it runs).      *)

VARIABLES file, as_json, exit_status,
          data, verbose, pc, errors, elements, elements_by_id, ids, i

vars == <<file, as_json, exit_status,
          data, verbose, pc, errors, elements, elements_by_id, ids, i>>

\* A call of validate_excalidraw(data, verbose) on one of docs
InitWith(docs) ==
    /\ file = "ok"
    /\ as_json = FALSE
    /\ exit_status = None
    /\ data \in docs
    /\ verbose \in BOOLEAN
    /\ pc = "top"
    /\ errors = <<>>
    /\ elements = <<>>
    /\ elements_by_id = EmptyDict
    /\ ids = <<>>
    /\ i = 1

\* (variant: returns at once without reporting the error)
CheckTopLevelSilent ==
    /\ pc = "top"
    /\ LET errs == MissingFieldErrors(data) \o InvalidTypeErrors(data)
       IN  IF ~IsList(ElementsOf(data))
           THEN /\ errors' = errs
                /\ pc' = "done"
                /\ UNCHANGED elements
           ELSE /\ errors' = errs
                /\ elements' = ElementsOf(data).v
                /\ pc' = "index"
    /\ UNCHANGED <<file, as_json, exit_status, data, verbose, elements_by_id, ids, i>>

\* 1. Check top-level structure; returns at once when elements is no list.
CheckTopLevel ==
    /\ pc = "top"
    /\ LET errs == MissingFieldErrors(data) \o InvalidTypeErrors(data)
       IN  IF ~IsList(ElementsOf(data))
           THEN /\ errors' = Append(errs, NotAListError)
                /\ pc' = "done"
                /\ UNCHANGED elements
           ELSE /\ errors' = errs
                /\ elements' = ElementsOf(data).v
                /\ pc' = "index"
    /\ UNCHANGED <<file, as_json, exit_status, data, verbose, elements_by_id, ids, i>>

\* Build lookup maps
BuildIndex ==
    /\ pc = "index"
    /\ ids' = BuildLookup(elements).ids
    /\ elements_by_id' = BuildLookup(elements).elements_by_id
    /\ pc' = "duplicates"
    /\ UNCHANGED <<file, as_json, exit_status, data, verbose, errors, elements, i>>

\* 2. Check for duplicate IDs
CheckDuplicates ==
    /\ pc = "duplicates"
    /\ errors' = errors \o DuplicateErrors(ids)
    /\ i' = 1
    /\ pc' = "elements"
    /\ UNCHANGED <<file, as_json, exit_status, data, verbose, elements, elements_by_id, ids>>

\* (variant: el.setdefault("id", "unknown") instead of el.get; elements is
\* the list held by data, so the write shows in both)
CheckElementSetDefault ==
    /\ pc = "elements"
    /\ i <= Len(elements)
    /\ IF ElementRaises(elements[i])
       THEN /\ pc' = "raised"
            /\ UNCHANGED <<errors, i, elements, data>>
       ELSE /\ errors' = errors \o ElementErrors(elements[i], elements, elements_by_id, verbose)
            /\ i' = i + 1
            /\ pc' = "elements"
            /\ elements' = [elements EXCEPT ![i] = @ @@ ("id" :> Str("unknown"))]
            /\ data' = [data EXCEPT !["elements"] = List(elements')]
    /\ UNCHANGED <<file, as_json, exit_status, verbose, elements_by_id, ids>>

\* 3. One pass of `for el in elements`
CheckElement ==
    /\ pc = "elements"
    /\ i <= Len(elements)
    /\ IF ElementRaises(elements[i])
       THEN /\ pc' = "raised"
            /\ UNCHANGED <<errors, i>>
       ELSE /\ errors' = errors \o ElementErrors(elements[i], elements, elements_by_id, verbose)
            /\ i' = i + 1
            /\ pc' = "elements"
    /\ UNCHANGED <<file, as_json, exit_status, data, verbose, elements, elements_by_id, ids>>

\* return errors
Return ==
    /\ pc = "elements"
    /\ i > Len(elements)
    /\ pc' = "done"
    /\ UNCHANGED <<file, as_json, exit_status, data, verbose, errors, elements, elements_by_id, ids, i>>

Next == CheckTopLevel \/ BuildIndex \/ CheckDuplicates \/ CheckElement \/ Return

\* main: a run of the script on a path, with or without --json and --verbose
InitMain(docs) ==
    /\ file \in {"missing", "undecodable", "ok"}
    /\ as_json \in BOOLEAN
    /\ exit_status = None
    /\ data \in (IF file = "ok" THEN docs ELSE {EmptyDict})
    /\ verbose \in BOOLEAN
    /\ pc = "main"
    /\ errors = <<>>
    /\ elements = <<>>
    /\ elements_by_id = EmptyDict
    /\ ids = <<>>
    /\ i = 1

\* The path is checked and the file decoded; then validate_excalidraw is
\* called.
ReadFile ==
    /\ pc = "main"
    /\ IF file \in {"missing", "undecodable"}
       THEN /\ exit_status' = Num(1)
            /\ pc' = "exited"
       ELSE /\ pc' = "top"
            /\ UNCHANGED exit_status
    /\ UNCHANGED <<file, as_json, data, verbose, errors, elements, elements_by_id, ids, i>>

\* The output after validate_excalidraw has returned.  The --json branch
\* prints the result and main returns, which ends the process with status 0.
Report ==
    /\ pc = "done"
    /\ LET error_count == Cardinality({k \in 1..Len(errors) : errors[k].level = "error"})
           warning_count == Cardinality({k \in 1..Len(errors) : errors[k].level = "warning"})
       IN  IF as_json
           THEN exit_status' = Num(0)
           ELSE IF error_count = 0 /\ warning_count = 0
                THEN exit_status' = Num(0)
                ELSE IF error_count = 0
                     THEN exit_status' = Num(0)
                     ELSE exit_status' = Num(1)
    /\ pc' = "exited"
    /\ UNCHANGED <<file, as_json, data, verbose, errors, elements, elements_by_id, ids, i>>

\* An exception raised in validate_excalidraw is caught nowhere: the
\* interpreter prints the traceback and ends the process with status 1.
Uncaught ==
    /\ pc = "raised"
    /\ exit_status' = Num(1)
    /\ pc' = "crashed"
    /\ UNCHANGED <<file, as_json, data, verbose, errors, elements, elements_by_id, ids, i>>

NextMain ==
    \/ ReadFile
    \/ CheckTopLevel \/ BuildIndex \/ CheckDuplicates \/ CheckElement \/ Return
    \/ Report
    \/ Uncaught

SpecMain == InitMain(CommonDocs \cup TopDocs \cup ArrowDocs) /\ [][NextMain]_vars

InitRef == InitWith(CommonDocs \cup RefDocs \cup CoreDocs)
SpecRef == InitRef /\ [][Next]_vars

InitTop == InitWith(CommonDocs \cup TopDocs)
SpecTop == InitTop /\ [][Next]_vars

InitArrow == InitWith(CommonDocs \cup ArrowDocs \cup BoxDocs)
SpecArrow == InitArrow /\ [][Next]_vars

InitNear == InitWith(CommonDocs \cup NearDocs)
SpecNear == InitNear /\ [][Next]_vars

InitSparse == InitWith(CommonDocs \cup SparseDocs)
SpecSparse == InitSparse /\ [][Next]_vars
\* The function runs to its end once called: every step that can be taken
\* is taken.
FairSpecSparse == SpecSparse /\ WF_vars(Next)

Init == InitWith(CommonDocs \cup TopDocs \cup RefDocs \cup CoreDocs \cup ArrowDocs \cup BoxDocs)
Spec == Init /\ [][Next]_vars

TypeOK ==
    /\ pc \in {"main", "top", "index", "duplicates", "elements", "done", "raised",
              "exited", "crashed"}
    /\ exit_status \in {None, Num(0), Num(1)}
    /\ \A k \in 1..Len(errors) : errors[k].level \in {"error", "warning"}

-----------------------------------------------------------------------------
(* Properties                                                              *)

\* Number of entries of seq that satisfy P
Count(seq, P(_)) == Cardinality({k \in 1..Len(seq) : P(seq[k])})

HasText(e, text) == e.message[1] = text

TopLevelTexts ==
    {"Missing required field: ", "Invalid type: expected 'excalidraw', got ",
     "elements must be a list"}

IsTopLevel(e) == e.message[1] \in TopLevelTexts

ElementsNotAList == "elements" \in DOMAIN data /\ ~IsList(data["elements"])

ElementsListOrAbsent == "elements" \in DOMAIN data => IsList(data["elements"])

TypeIsExcalidraw == "type" \in DOMAIN data /\ data["type"] = Str("excalidraw")

NumMissing(fields) == Cardinality({f \in fields : f \notin DOMAIN data})

\* C1 as stated: when `elements` is present but not a list, the result is the
\* single diagnostic 'elements must be a list', whatever type and version are.
C1_SingleDiagnostic ==
    (pc = "done" /\ ElementsNotAList) => errors = <<NotAListError>>

\* C1 amended: when `elements` is present but not a list, the result is the
\* top-level diagnostics for type and version (one 'Missing required field'
\* for each of the two that is absent, one 'Invalid type' unless type is
\* 'excalidraw') followed by exactly one 'elements must be a list', which is
\* last; no duplicate-id or per-element diagnostic is reported.  The result is
\* that single diagnostic exactly when type is 'excalidraw' and version is
\* present.
C1_AbortAfterTopLevel ==
    (pc = "done" /\ ElementsNotAList) =>
        /\ Len(errors) = NumMissing({"type", "version"})
                         + (IF TypeIsExcalidraw THEN 0 ELSE 1) + 1
        /\ errors[Len(errors)] = NotAListError
        /\ Count(errors, LAMBDA e : HasText(e, "elements must be a list")) = 1
        /\ \A k \in 1..Len(errors) :
              /\ IsTopLevel(errors[k])
              /\ errors[k].level = "error"
              /\ errors[k].element_id = None
        /\ (errors = <<NotAListError>>) <=> (TypeIsExcalidraw /\ "version" \in DOMAIN data)

C1_Witness ==
    /\ pc = "done"
    /\ ElementsNotAList
    /\ "type" \notin DOMAIN data
    /\ "version" \in DOMAIN data
    /\ Len(errors) = 3

\* The present fields of the document have the JSON types of the data model
\* (only `points` is ever ill-typed in the documents considered).
WellTyped ==
    /\ ElementsListOrAbsent
    /\ \A k \in 1..Len(ElementsOf(data).v) :
          LET el == ElementsOf(data).v[k]
          IN  "points" \in DOMAIN el => IsList(el["points"])

\* C2: on a document whose elements is a list of mappings, with any subset
\* of the top-level fields and of the elements' fields absent, validation
\* never raises and runs to its return, for either value of verbose.
C2_NeverRaises == WellTyped ~> (pc = "done")

C2_Witness ==
    /\ pc = "done"
    /\ verbose
    /\ Len(elements) = 2
    /\ \E k \in 1..2 :
          /\ Get(elements[k], "type", None) = Str("arrow")
          /\ DOMAIN elements[k] = {"type", "id"}
    /\ \E k \in 1..2 :
          /\ Get(elements[k], "type", None) = Str("rectangle")
          /\ DOMAIN elements[k] = {"type"}

IsDiamond(el) == Get(el, "type", None) = Str("diamond")

\* Number of repeat occurrences among the truthy ids of els
NumRepeats(els) ==
    Cardinality({k \in 1..Len(els) :
        /\ Truthy(Get(els[k], "id", None))
        /\ \E m \in 1..(k - 1) : Get(els[m], "id", None) = Get(els[k], "id", None)})

\* C3 as stated: a document lacking k of type, version, elements (elements a
\* list when present) gets exactly k top-level structural errors.
C3_ExactlyKTopLevel ==
    (pc = "done" /\ ElementsListOrAbsent) =>
        Count(errors, IsTopLevel) = NumMissing({"type", "version", "elements"})

\* C3 amended: such a document gets exactly one 'Missing required field'
\* error for each absent field and none for a present one, and besides them
\* one 'Invalid type' error exactly when type is absent or not 'excalidraw';
\* the top-level errors come first, and the duplicate-id and per-element
\* checks still run on the elements that are present.
C3_OnePerMissingField ==
    (pc = "done" /\ ElementsListOrAbsent) =>
        LET top == NumMissing({"type", "version", "elements"})
                   + (IF TypeIsExcalidraw THEN 0 ELSE 1)
        IN  /\ \A f \in {"type", "version", "elements"} :
                  Count(errors, LAMBDA e : e.message = <<"Missing required field: ", f>>)
                    = (IF f \in DOMAIN data THEN 0 ELSE 1)
            /\ Count(errors, IsTopLevel) = top
            /\ \A k \in 1..Len(errors) : IsTopLevel(errors[k]) <=> k <= top
            /\ i = Len(ElementsOf(data).v) + 1
            /\ Count(errors, LAMBDA e : HasText(e, "Duplicate ID: "))
                 = NumRepeats(ElementsOf(data).v)
            /\ Count(errors, LAMBDA e : HasText(e, "Diamond shapes have broken arrow connections. Use styled rectangles instead."))
                 = Count(ElementsOf(data).v, IsDiamond)

C3_Witness ==
    /\ pc = "done"
    /\ DOMAIN data = {"elements"}
    /\ Len(elements) = 2
    /\ elements[1] = elements[2]
    /\ IsDiamond(elements[1])
    /\ Len(errors) = 6

-----------------------------------------------------------------------------
(* Per-element properties.  A step of the element loop handles elements[i] *)
(* and appends its diagnostics to errors.                                  *)

TypeOf(el) == Get(el, "type", None)

\* The step about to be taken handles an element of one of the given types
\* and completes.
Handles(types) ==
    /\ pc = "elements"
    /\ i <= Len(elements)
    /\ i' = i + 1
    /\ TypeOf(elements[i]) \in types

\* The diagnostics appended by the step
Appended == SubSeq(errors', Len(errors) + 1, Len(errors'))

\* The element handled last, in the state after its step
Handled == elements[i - 1]
JustHandled(types) ==
    /\ pc = "elements"
    /\ i > 1
    /\ TypeOf(Handled) \in types

HasAll(el, props) == props \subseteq DOMAIN el

\* Positions of the elements that carry id value idval
Carriers(idval) ==
    {k \in 1..Len(elements) :
        "id" \in DOMAIN elements[k] /\ elements[k]["id"] = idval}

CarriedIds == {elements[k]["id"] : k \in {n \in 1..Len(elements) : "id" \in DOMAIN elements[n]}}

\* C4: for every id value carried by k >= 1 elements exactly k-1 'Duplicate
\* ID' errors naming it are reported, and every element is still checked.
C4_DuplicatePerRepeat ==
    pc = "done" /\ IsList(ElementsOf(data)) =>
        /\ \A idval \in CarriedIds :
              Count(errors, LAMBDA e : e.message = <<"Duplicate ID: ", idval>>)
                = Cardinality(Carriers(idval)) - 1
        /\ i = Len(elements) + 1

DiamondText == "Diamond shapes have broken arrow connections. Use styled rectangles instead."

\* C5: the step that handles a diamond element appends exactly one 'Diamond
\* shapes have broken arrow connections' error, which carries the element's
\* id ('unknown' when it has none), whatever its other fields are; when the
\* diamond has id, type, x and y that error is all the step appends.
C5_DiamondAlwaysOneError ==
    [][Handles({Str("diamond")}) =>
        LET el == elements[i]
        IN  /\ Count(Appended, LAMBDA e : HasText(e, DiamondText)) = 1
            /\ \A k \in 1..Len(Appended) :
                  HasText(Appended[k], DiamondText) =>
                      /\ Appended[k].level = "error"
                      /\ Appended[k].element_id = Get(el, "id", Str("unknown"))
            /\ HasAll(el, {"id", "type", "x", "y"}) => Len(Appended) = 1]_vars

C5_Witness ==
    /\ JustHandled({Str("diamond")})
    /\ DOMAIN Handled = {"type", "id", "x", "y", "width", "height", "boundElements"}
    /\ errors[Len(errors)].message = <<DiamondText>>
    /\ errors[Len(errors)].element_id = Str("a")

\* The element at position k lists the text element el back: its
\* boundElements holds a binding of type text whose id is el's id.
ListsBack(k, el) ==
    \E n \in 1..Len(BoundElementsOf(elements[k])) :
        LET b == BoundElementsOf(elements[k])[n]
        IN  /\ Get(b, "type", None) = Str("text")
            /\ "id" \in DOMAIN b
            /\ "id" \in DOMAIN el
            /\ b["id"] = el["id"]

Errors(seq) == Count(seq, LAMBDA e : e.level = "error")
Warnings(seq) == Count(seq, LAMBDA e : e.level = "warning")

FullText(el) == HasAll(el, {"id", "type", "x", "y", "text"})

HasContainerId(el) == "containerId" \in DOMAIN el /\ el["containerId"] # None

Last(S) == CHOOSE k \in S : \A m \in S : m <= k

\* C6 as stated: for a text element (with id, type, x, y, text) that has a
\* containerId: no element carries that id => exactly one error, no warning;
\* an element carries it but does not list the text back => exactly one
\* warning, no error; the container lists it back => nothing.
C6_ContainerReference ==
    [][(Handles({Str("text")}) /\ FullText(elements[i]) /\ HasContainerId(elements[i])) =>
        LET el == elements[i]
            carriers == Carriers(el["containerId"])
        IN  /\ carriers = {} => (Errors(Appended) = 1 /\ Warnings(Appended) = 0)
            /\ (\E k \in carriers : ~ListsBack(k, el)) =>
                  (Errors(Appended) = 0 /\ Warnings(Appended) = 1)
            /\ (\E k \in carriers : ListsBack(k, el)) => Appended = <<>>]_vars

\* C6 amended: for a text element (with id, type, x, y, text) whose
\* containerId is a non-empty string: no element carries that id => exactly
\* one error, no warning; otherwise the container is the last element in
\* document order that carries the id, and exactly one warning and no error
\* is reported when it does not list the text back, nothing when it does.
\* An empty or null containerId is not checked at all.
C6_NonEmptyContainerReference ==
    [][(Handles({Str("text")}) /\ FullText(elements[i]) /\ HasContainerId(elements[i])) =>
        LET el == elements[i]
            carriers == Carriers(el["containerId"])
        IN  IF el["containerId"] = Str("")
            THEN Appended = <<>>
            ELSE /\ carriers = {} => (Errors(Appended) = 1 /\ Warnings(Appended) = 0)
                 /\ (carriers # {} /\ ~ListsBack(Last(carriers), el)) =>
                       (Errors(Appended) = 0 /\ Warnings(Appended) = 1)
                 /\ (carriers # {} /\ ListsBack(Last(carriers), el)) => Appended = <<>>]_vars

\* a text element whose container comes twice, listing it back only the
\* first time, has been given its warning
C6_Witness ==
    /\ JustHandled({Str("text")})
    /\ FullText(Handled)
    /\ i = 4
    /\ HasContainerId(Handled)
    /\ Carriers(Handled["containerId"]) = {1, 2}
    /\ ListsBack(1, Handled)
    /\ ~ListsBack(2, Handled)
    /\ errors[Len(errors)].level = "warning"

BindingTexts ==
    {"boundElements references missing text element: ",
     "Text element containerId doesn't match shape id: "}

IsBindingError(e) == e.message[1] \in BindingTexts

\* Positions of the text bindings of el that refer to id value idval
\* (None for a binding without id)
TextEntries(el, idval) ==
    {n \in 1..Len(BoundElementsOf(el)) :
        /\ Get(BoundElementsOf(el)[n], "type", None) = Str("text")
        /\ Get(BoundElementsOf(el)[n], "id", None) = idval}

TextEntryIds(el) ==
    {Get(BoundElementsOf(el)[n], "id", None) :
        n \in {m \in 1..Len(BoundElementsOf(el)) :
                  Get(BoundElementsOf(el)[m], "type", None) = Str("text")}}

PointsBackTo(k, shape) ==
    /\ "containerId" \in DOMAIN elements[k]
    /\ "id" \in DOMAIN shape
    /\ elements[k]["containerId"] = shape["id"]

\* C7: for a rectangle or ellipse and every text binding of its
\* boundElements, exactly one error carrying the shape's id is reported when
\* no element carries the referenced id or the referenced element's
\* containerId is not the shape's id, none otherwise; bindings of other types
\* get no diagnostic.  (Where several elements carry the referenced id the
\* property speaks only when they agree.)
C7_BoundTextReference ==
    [][Handles(ShapeTypes) =>
        LET el == elements[i]
        IN  /\ \A idval \in TextEntryIds(el) :
                  LET reported == Count(Appended,
                          LAMBDA e : IsBindingError(e) /\ e.message[2] = idval)
                  IN  /\ (\A k \in Carriers(idval) : ~PointsBackTo(k, el)) =>
                            reported = Cardinality(TextEntries(el, idval))
                      /\ (Carriers(idval) # {} /\ \A k \in Carriers(idval) : PointsBackTo(k, el)) =>
                            reported = 0
            /\ \A k \in 1..Len(Appended) :
                  IsBindingError(Appended[k]) =>
                      /\ Appended[k].message[2] \in TextEntryIds(el)
                      /\ Appended[k].level = "error"
                      /\ Appended[k].element_id = Get(el, "id", Str("unknown"))]_vars

ContainerTexts ==
    {"containerId references missing shape: ",
     "Container missing boundElements reference to this text: "}

IsContainerDiagnostic(e) == e.message[1] \in ContainerTexts

NamesOnlyNonShapes(el) ==
    /\ HasContainerId(el)
    /\ el["containerId"] # Str("")
    /\ Carriers(el["containerId"]) # {}
    /\ \A k \in Carriers(el["containerId"]) : TypeOf(elements[k]) \notin ShapeTypes

\* C8 as stated: a text element whose (non-empty) containerId names an
\* existing element that is not a rectangle or ellipse gets a diagnostic for
\* the container reference.
C8_NonShapeContainerReported ==
    [][(Handles({Str("text")}) /\ NamesOnlyNonShapes(elements[i])) =>
        Count(Appended, IsContainerDiagnostic) >= 1]_vars

\* C8 amended: the type of the container is not checked.  A text element
\* whose non-empty containerId names existing elements none of which is a
\* rectangle or ellipse never gets the 'containerId references missing shape'
\* error; it gets exactly one 'Container missing boundElements reference'
\* warning when the last element carrying that id does not list it back, and
\* no container diagnostic when it does.
C8_ContainerTypeUnchecked ==
    [][(Handles({Str("text")}) /\ NamesOnlyNonShapes(elements[i])) =>
        LET el == elements[i]
            container == Last(Carriers(el["containerId"]))
        IN  /\ Count(Appended, LAMBDA e : IsContainerDiagnostic(e) /\ e.level = "error") = 0
            /\ Count(Appended, IsContainerDiagnostic)
                 = (IF ListsBack(container, el) THEN 0 ELSE 1)]_vars

\* a text element bound to an arrow that lists it back went through clean
C8_Witness ==
    /\ JustHandled({Str("text")})
    /\ i = 3
    /\ NamesOnlyNonShapes(Handled)
    /\ TypeOf(elements[1]) = Str("arrow")
    /\ ListsBack(1, Handled)
    /\ FullText(Handled)
    /\ Len(errors) = 0

-----------------------------------------------------------------------------
(* Arrows                                                                  *)

\* Number of entries of el's points, 0 when points is absent
NumPoints(el) == IF "points" \in DOMAIN el THEN Len(el["points"].v) ELSE 0

TwoPointsText == "Arrow must have at least 2 points"

\* C9: the step that handles an arrow appends exactly one 'Arrow must have at
\* least 2 points' error, carrying the arrow's id, when points has 0 or 1
\* entries or is absent, and no such error when it has 2 or more.
C9_FewerThanTwoPoints ==
    [][Handles({Str("arrow")}) =>
        LET el == elements[i]
        IN  /\ Count(Appended, LAMBDA e : HasText(e, TwoPointsText))
                 = (IF NumPoints(el) < 2 THEN 1 ELSE 0)
            /\ \A k \in 1..Len(Appended) :
                  HasText(Appended[k], TwoPointsText) =>
                      /\ Appended[k].level = "error"
                      /\ Appended[k].element_id = Get(el, "id", Str("unknown"))]_vars

C9_Witness ==
    /\ JustHandled({Str("arrow")})
    /\ NumPoints(Handled) = 1
    /\ "id" \in DOMAIN Handled
    /\ \E k \in 1..Len(errors) :
          /\ errors[k].message = <<TwoPointsText>>
          /\ errors[k].element_id = Handled["id"]

ElbowedText == "Multi-point arrow missing 'elbowed: true' - will render curved"
RoundnessText == "Elbow arrow should have 'roundness: null' for sharp corners"
RoughnessText == "Elbow arrow should have 'roughness: 0' for clean lines"

IsWarning(e, text) == HasText(e, text) /\ e.level = "warning"

\* C10: for an arrow with more than 2 points the step appends exactly one
\* 'missing elbowed: true' warning iff elbowed is not true (absent included),
\* exactly one roundness warning iff roundness is present and not null, and
\* exactly one roughness warning iff roughness is not 0 (absent counts as 1);
\* an arrow with 2 or fewer points gets none of the three.
C10_ElbowWarnings ==
    [][Handles({Str("arrow")}) =>
        LET el == elements[i]
            multi == NumPoints(el) > 2
            elbowed == "elbowed" \in DOMAIN el /\ el["elbowed"] = Bool(TRUE)
            rounded == "roundness" \in DOMAIN el /\ el["roundness"] # None
            smooth == "roughness" \in DOMAIN el /\ el["roughness"] = Num(0)
        IN  /\ Count(Appended, LAMBDA e : HasText(e, ElbowedText))
                 = (IF multi /\ ~elbowed THEN 1 ELSE 0)
            /\ Count(Appended, LAMBDA e : HasText(e, RoundnessText))
                 = (IF multi /\ rounded THEN 1 ELSE 0)
            /\ Count(Appended, LAMBDA e : HasText(e, RoughnessText))
                 = (IF multi /\ ~smooth THEN 1 ELSE 0)
            /\ \A k \in 1..Len(Appended) :
                  Appended[k].message[1] \in {ElbowedText, RoundnessText, RoughnessText} =>
                      Appended[k].level = "warning"]_vars

C10_Witness ==
    /\ JustHandled({Str("arrow")})
    /\ NumPoints(Handled) = 3
    /\ "elbowed" \notin DOMAIN Handled
    /\ "roundness" \in DOMAIN Handled /\ Handled["roundness"] = None
    /\ "roughness" \notin DOMAIN Handled
    /\ Count(errors, LAMBDA e : IsWarning(e, ElbowedText)) = 1
    /\ Count(errors, LAMBDA e : IsWarning(e, RoundnessText)) = 0
    /\ Count(errors, LAMBDA e : IsWarning(e, RoughnessText)) = 1


WidthText == "Arrow width smaller than points bounding box"
HeightText == "Arrow height smaller than points bounding box"

\* Largest absolute offset of the points of el along coordinate c
LargestOffset(el, c) ==
    CHOOSE m \in {Abs(el["points"].v[k][c]) : k \in 1..NumPoints(el)} :
        \A k \in 1..NumPoints(el) : Abs(el["points"].v[k][c]) <= m

\* C11: for an arrow with non-empty points the step appends a width warning
\* iff width (0 when absent) is less than the largest absolute x offset minus
\* 1, and a height warning iff height (0 when absent) is less than the
\* largest absolute y offset minus 1; each at most once, and as a warning.
C11_BoundingBox ==
    [][(Handles({Str("arrow")}) /\ NumPoints(elements[i]) > 0) =>
        LET el == elements[i]
            width == IF "width" \in DOMAIN el THEN el["width"].v ELSE 0
            height == IF "height" \in DOMAIN el THEN el["height"].v ELSE 0
        IN  /\ Count(Appended, LAMBDA e : HasText(e, WidthText))
                 = (IF width < LargestOffset(el, 1) - 1 THEN 1 ELSE 0)
            /\ Count(Appended, LAMBDA e : HasText(e, HeightText))
                 = (IF height < LargestOffset(el, 2) - 1 THEN 1 ELSE 0)
            /\ \A k \in 1..Len(Appended) :
                  Appended[k].message[1] \in {WidthText, HeightText} =>
                      Appended[k].level = "warning"]_vars

\* an arrow reaching 5 to the left with width 4 got no width warning, and
\* one for its height
C11_Witness ==
    /\ JustHandled({Str("arrow")})
    /\ NumPoints(Handled) = 2
    /\ LargestOffset(Handled, 1) = 5
    /\ LargestOffset(Handled, 2) = 4
    /\ "width" \in DOMAIN Handled /\ Handled["width"] = Num(4)
    /\ "height" \notin DOMAIN Handled
    /\ Count(errors, LAMBDA e : HasText(e, WidthText)) = 0
    /\ Count(errors, LAMBDA e : IsWarning(e, HeightText)) = 1


-----------------------------------------------------------------------------
(* The command line                                                        *)

\* C12: a run on an existing, decodable file ends with status 1 iff the
\* diagnostics hold at least one error and with status 0 otherwise, in the
\* plain and in the --json mode, with or without --verbose; a missing or
\* undecodable file ends with status 1.
C12_ExitStatus ==
    pc = "exited" =>
        IF file = "ok"
        THEN exit_status = (IF Errors(errors) >= 1 THEN Num(1) ELSE Num(0))
        ELSE exit_status = Num(1)


-----------------------------------------------------------------------------
(* Frame                                                                   *)

\* C13: no step of validate_excalidraw changes its input: the document, and
\* with it the element list the function iterates over (the very list the
\* document holds) and every element in it, stay what they were at the call,
\* for either value of verbose and on the early return as well.
C13_InputUnchanged ==
    [][/\ data' = data
       /\ pc \notin {"main", "top"} => elements' = elements
       /\ pc' \in {"index", "duplicates", "elements", "raised"} =>
             elements' = ElementsOf(data').v]_vars

C13_Witness ==
    /\ pc = "done"
    /\ verbose
    /\ Len(elements) = 2
    /\ "id" \notin DOMAIN elements[1]
    /\ BoundElementsOf(elements[1]) # <<>>
    /\ elements = data["elements"].v
    /\ Len(errors) >= 2


-----------------------------------------------------------------------------
(* The index under repeated ids                                            *)

First(S) == CHOOSE k \in S : \A m \in S : k <= m

IndexBuilt == pc \in {"duplicates", "elements"} \/ (pc = "done" /\ i > 1)

\* C14 as stated: once the index is built, and for as long as the elements
\* are checked, every id of the index maps to the first element in document
\* order that carries it, so that is what a containerId or a boundElements
\* text reference resolves to.
C14_FirstOccurrenceWins ==
    IndexBuilt =>
        \A idval \in DOMAIN elements_by_id :
            elements_by_id[idval] = elements[First(Carriers(idval))]

\* C14 amended: once the index is built, and for as long as the elements are
\* checked, the index holds exactly the non-empty ids carried by elements,
\* and each maps to the last element in document order that carries it:
\* every later element with the same id replaces the earlier one, so that is
\* what a containerId or a boundElements text reference resolves to.
C14_LastOccurrenceWins ==
    IndexBuilt =>
        /\ DOMAIN elements_by_id = {idval \in CarriedIds : Truthy(idval)}
        /\ \A idval \in DOMAIN elements_by_id :
              elements_by_id[idval] = elements[Last(Carriers(idval))]

\* a text element has been checked whose containerId is carried by two
\* different elements
C14_Witness ==
    /\ JustHandled({Str("text")})
    /\ HasContainerId(Handled)
    /\ Cardinality(Carriers(Handled["containerId"])) >= 2
    /\ LET carriers == Carriers(Handled["containerId"])
       IN  /\ elements[First(carriers)] # elements[Last(carriers)]
           /\ elements_by_id[Handled["containerId"]] = elements[Last(carriers)]


-----------------------------------------------------------------------------
(* Order of the diagnostics                                                *)

IsDuplicate(e) == HasText(e, "Duplicate ID: ")

IsMissingProp(e) == HasText(e, "Missing required property: ")

IsPrefix(s, t) == Len(s) <= Len(t) /\ SubSeq(t, 1, Len(s)) = s

\* C15: the result only ever grows at its end, so a diagnostic keeps its
\* place once it is reported; the top-level step reports top-level
\* diagnostics only, then the duplicate step 'Duplicate ID' errors only,
\* then the elements are visited one at a time in document order, each visit
\* reporting diagnostics of that element only (they carry its id, 'unknown'
\* when absent) with its 'Missing required property' errors before all its
\* other diagnostics; nothing reported for an element is touched by the
\* visit of a later one.
C15_DiagnosticOrder ==
    [][/\ IsPrefix(errors, errors')
       /\ pc = "top" => \A k \in 1..Len(Appended) : IsTopLevel(Appended[k])
       /\ pc = "duplicates" =>
             /\ \A k \in 1..Len(Appended) : IsDuplicate(Appended[k])
             /\ i' = 1
       /\ pc \in {"index", "done"} => Appended = <<>>
       /\ pc = "elements" =>
             /\ i' \in {i, i + 1}
             /\ i' = i => Appended = <<>>
             /\ i' = i + 1 =>
                   /\ \A k \in 1..Len(Appended) :
                         /\ ~IsTopLevel(Appended[k])
                         /\ ~IsDuplicate(Appended[k])
                         /\ Appended[k].element_id = Get(elements[i], "id", Str("unknown"))
                   /\ \A k, m \in 1..Len(Appended) :
                         (IsMissingProp(Appended[m]) /\ ~IsMissingProp(Appended[k])) => m < k]_vars

\* a returned result with a top-level diagnostic, a duplicate error, a
\* diagnostic of the first element and, for the third element, a missing
\* property error followed by a diagnostic of its type
C15_Witness ==
    /\ pc = "done"
    /\ Len(elements) = 3
    /\ Len(errors) >= 6
    /\ \E p \in 1..(Len(errors) - 5) :
          /\ IsTopLevel(errors[p])
          /\ IsDuplicate(errors[p + 1])
          /\ HasText(errors[p + 2], DiamondText)
          /\ errors[p + 2].element_id = Str("a")
    /\ IsMissingProp(errors[Len(errors) - 2])
    /\ HasText(errors[Len(errors) - 1], "containerId references missing shape: ")
    /\ errors[Len(errors) - 1].element_id = Str("b")
    /\ HasText(errors[Len(errors)], "Text element missing 'text' property")


-----------------------------------------------------------------------------
(* Arrow endpoints, verbose                                                *)

StartText == "Arrow start not near any shape edge"
EndText == "Arrow end not near any shape edge"

\* Twice the coordinates of the top, bottom, left and right edge midpoints
\* of el's bounding box
Midpoints2(el) ==
    LET left == Get(el, "x", Num(0)).v
        top == Get(el, "y", Num(0)).v
        w == Get(el, "width", Num(0)).v
        h == Get(el, "height", Num(0)).v
    IN  {<<2 * left + w, 2 * top>>, <<2 * left + w, 2 * (top + h)>>,
         <<2 * left, 2 * top + h>>, <<2 * (left + w), 2 * top + h>>}

\* Some rectangle or ellipse of the document has an edge midpoint whose
\* distance from (x, y) is, on both axes, at most 20 (inclusive) or below 20
RectangleOrEllipseNear(x, y, inclusive) ==
    \E k \in 1..Len(elements) :
        /\ "type" \in DOMAIN elements[k]
        /\ elements[k]["type"] \in {Str("rectangle"), Str("ellipse")}
        /\ \E m \in Midpoints2(elements[k]) :
              IF inclusive
              THEN Abs(m[1] - 2 * x) <= 40 /\ Abs(m[2] - 2 * y) <= 40
              ELSE Abs(m[1] - 2 * x) < 40 /\ Abs(m[2] - 2 * y) < 40

\* What the step handling the arrow elements[i] reports about its two ends
EndpointWarnings(inclusive) ==
    LET el == elements[i]
        x == Get(el, "x", Num(0)).v
        y == Get(el, "y", Num(0)).v
        points == Get(el, "points", List(<<>>)).v
        starts == Count(Appended, LAMBDA e : IsWarning(e, StartText))
        ends == Count(Appended, LAMBDA e : IsWarning(e, EndText))
    IN  /\ starts = (IF RectangleOrEllipseNear(x, y, inclusive) THEN 0 ELSE 1)
        /\ ends = (IF /\ points # <<>>
                      /\ ~RectangleOrEllipseNear(x + points[Len(points)][1],
                                                 y + points[Len(points)][2], inclusive)
                   THEN 1 ELSE 0)

\* C16 as stated: with verbose set, the step handling an arrow reports an
\* 'Arrow start' warning iff no rectangle or ellipse has an edge midpoint
\* within 20 units, inclusive, on both axes of (x, y), and an 'Arrow end'
\* warning iff points is non-empty and no such midpoint lies within 20 units,
\* inclusive, of (x + last.x, y + last.y); other types never count.
C16_WithinToleranceInclusive ==
    [][(Handles({Str("arrow")}) /\ verbose) => EndpointWarnings(TRUE)]_vars

\* C16 amended: the same, with "within 20 units" read strictly: a midpoint
\* counts as near only when its distance is below 20 on both axes, so an
\* endpoint exactly 20 units from the nearest midpoint is warned about.
C16_WithinToleranceStrict ==
    [][(Handles({Str("arrow")}) /\ verbose) => EndpointWarnings(FALSE)]_vars

\* an arrow next to a rectangle has been handled whose start is exactly 20
\* units from the top midpoint (warned about) and whose end is 1 unit from it
C16_Witness ==
    /\ JustHandled({Str("arrow")})
    /\ verbose
    /\ Len(elements) = 2
    /\ TypeOf(elements[1]) = Str("rectangle")
    /\ Get(elements[1], "width", None) = Num(100)
    /\ Get(Handled, "x", None) = Num(30)
    /\ Get(Handled, "y", None) = Num(0)
    /\ Get(Handled, "points", None) = List(<< <<19, 0>> >>)
    /\ Count(errors, LAMBDA e : IsWarning(e, StartText)) = 1
    /\ Count(errors, LAMBDA e : IsWarning(e, EndText)) = 0


-----------------------------------------------------------------------------
(* Required properties of every element                                    *)

CheckedTypes ==
    {Str("rectangle"), Str("ellipse"), Str("diamond"), Str("text"), Str("arrow")}

\* C17: the step handling an element, whatever its type (absent and unknown
\* included), appends for each of id, type, x, y exactly one 'Missing
\* required property' error when the element lacks it and none when it has
\* it; these errors carry the element's id, 'unknown' when id is absent; an
\* element that has all four and whose type is none of rectangle, ellipse,
\* diamond, text, arrow gets no diagnostic at all.
C17_MissingRequiredProperty ==
    [][(pc = "elements" /\ i <= Len(elements) /\ i' = i + 1) =>
        LET el == elements[i]
        IN  /\ \A prop \in {"id", "type", "x", "y"} :
                  Count(Appended, LAMBDA e :
                            /\ e.message = <<"Missing required property: ", prop>>
                            /\ e.level = "error"
                            /\ e.element_id = (IF "id" \in DOMAIN el THEN el["id"]
                                                                    ELSE Str("unknown")))
                    = (IF prop \in DOMAIN el THEN 0 ELSE 1)
            /\ Count(Appended, IsMissingProp)
                 = Cardinality({"id", "type", "x", "y"} \ DOMAIN el)
            /\ ({"id", "type", "x", "y"} \subseteq DOMAIN el /\ el["type"] \notin CheckedTypes)
                  => Appended = <<>>]_vars

\* an element without type, id and x has been handled and got exactly the
\* three errors
C17_Witness ==
    /\ pc = "elements"
    /\ i = 2
    /\ DOMAIN elements[1] \cap {"id", "type", "x", "y"} = {"y"}
    /\ "points" \in DOMAIN elements[1]
    /\ errors = <<ValidationError("error", <<"Missing required property: ", "id">>, Str("unknown")),
                  ValidationError("error", <<"Missing required property: ", "type">>, Str("unknown")),
                  ValidationError("error", <<"Missing required property: ", "x">>, Str("unknown"))>>


-----------------------------------------------------------------------------
(* The verbose flag                                                        *)

IsProximity(e) == IsWarning(e, StartText) \/ IsWarning(e, EndText)

WithoutProximity(seq) == SelectSeq(seq, LAMBDA e : ~IsProximity(e))

IsError(e) == e.level = "error"

\* C18: the result returned for a document with verbose set, once its
\* 'not near any shape edge' warnings are deleted, is the result the function
\* returns for the same document with verbose unset, entry by entry in the
\* same order; a result returned with verbose unset holds no such warning;
\* so both results hold the same error-level diagnostics and give the same
\* verdict.
C18_VerboseOnlyAddsWarnings ==
    pc = "done" =>
        LET other == Validate(data, ~verbose)
        IN  /\ WithoutProximity(errors) = WithoutProximity(other)
            /\ ~verbose => (WithoutProximity(errors) = errors /\ errors = Validate(data, FALSE))
            /\ verbose => WithoutProximity(errors) = other
            /\ SelectSeq(errors, IsError) = SelectSeq(other, IsError)
            /\ (Errors(errors) = 0) = (Errors(other) = 0)

\* a result returned with verbose set in which an arrow's error and
\* bounding-box warning come before its two proximity warnings and a later
\* element's error comes after them
C18_Witness ==
    /\ pc = "done"
    /\ verbose
    /\ Len(errors) = 5
    /\ HasText(errors[1], TwoPointsText)
    /\ IsWarning(errors[2], WidthText)
    /\ IsWarning(errors[3], StartText)
    /\ IsWarning(errors[4], EndText)
    /\ HasText(errors[5], DiamondText)

====
